---- MODULE Spec2Model ----
(***************************************************************************)
(* fx-logr: the adapter LogrLogger (src/logr.go) that turns fxevent events *)
(* into calls on a logr.Logger.  The model observes the adapter at its     *)
(* boundary with logr: a sink call is one `Logger.V(level).Info(...)` or   *)
(* `Logger.V(level).Error(err, ...)` with its message and its ordered      *)
(* key/value list.  What logr does with a call is outside the repository.  *)
(***************************************************************************)
EXTENDS Integers, Sequences, FiniteSets, TLC

VARIABLES
    Logger,      \* LogrLogger.Logger: the sink the adapter was built over
    logLevel,    \* LogrLogger.logLevel
    errorLevel,  \* LogrLogger.errorLevel
    op,          \* the most recent operation on the adapter
    arg,         \* the level argument of the most recent UseLogLevel/UseErrorLevel
    event,       \* the event the most recent operation was handed (NilEvent: none)
    calls,       \* the sink calls the most recent operation made, in order
    outcome      \* how the most recent operation ended: "returned" or "panicked"

vars == <<Logger, logLevel, errorLevel, op, arg, event, calls, outcome>>

----------------------------------------------------------------------------
(* Bounds of the model. *)

\* longest OutputTypeNames list of a Provided/Replaced/Decorated event
MaxOutputs == 2
\* levels handed to UseLogLevel/UseErrorLevel range over -MaxLevel..MaxLevel
MaxLevel == 1

----------------------------------------------------------------------------
(* Values the events carry. *)

\* a nil error, a nil os.Signal
Nil == "<nil>"

Sinks == {"loggerA", "loggerB"}
Levels == (0 - MaxLevel)..MaxLevel
Errors == {Nil, "some error"}
ModuleNames == {"", "myModule"}
TypeNames == {"*bytes.Buffer", "io.Reader"}
Signals == {Nil, "os.Interrupt", "syscall.SIGTERM", "syscall.Signal(42)"}

\* time.Duration counts nanoseconds
Microsecond == 1000
Millisecond == 1000000
Second == 1000000000
\* runtimes below, at and above the units String() switches on
Durations == {0, 1500, 3 * Millisecond, 1500 * Millisecond}

SeqsUpTo(S, n) == UNION {[1..k -> S] : k \in 0..n}

----------------------------------------------------------------------------
(* time.Duration.String(), as LogEvent calls it on e.Runtime. *)

RECURSIVE Digits(_, _)
\* the last n decimal digits of v, zero padded
Digits(v, n) == IF n = 0 THEN "" ELSE Digits(v \div 10, n - 1) \o ToString(v % 10)

RECURSIVE Pow10(_)
Pow10(n) == IF n = 0 THEN 1 ELSE 10 * Pow10(n - 1)

RECURSIVE TrimZeros(_, _)
\* the prec-digit fraction f without its trailing zeros
TrimZeros(f, prec) ==
    IF f % 10 = 0 THEN TrimZeros(f \div 10, prec - 1) ELSE Digits(f, prec)

\* fmtFrac: the fraction of v / 10^prec, and nothing at all when it is zero
fmtFrac(v, prec) ==
    LET f == v % Pow10(prec)
    IN  IF f = 0 THEN "" ELSE "." \o TrimZeros(f, prec)

DurationString(d) ==
    IF d = 0 THEN "0s"
    ELSE IF d < Second THEN
        LET prec == IF d < Microsecond THEN 0 ELSE IF d < Millisecond THEN 3 ELSE 6
            unit == IF d < Microsecond THEN "ns" ELSE IF d < Millisecond THEN "µs" ELSE "ms"
        IN  ToString(d \div Pow10(prec)) \o fmtFrac(d, prec) \o unit
    ELSE
        LET secs == d \div Second
            mins == secs \div 60
            hrs  == mins \div 60
            s    == ToString(secs % 60) \o fmtFrac(d, 9) \o "s"
            m    == IF mins > 0 THEN ToString(mins % 60) \o "m" ELSE ""
            h    == IF hrs > 0 THEN ToString(hrs) \o "h" ELSE ""
        IN  h \o m \o s

----------------------------------------------------------------------------
(* e.Signal.String() and strings.ToUpper.  A signal's name is a sequence   *)
(* of characters so that the upper-casing is computed, not assumed.        *)

SignalString(sig) ==
    CASE sig = "os.Interrupt" ->
            <<"i", "n", "t", "e", "r", "r", "u", "p", "t">>
      [] sig = "syscall.SIGTERM" ->
            <<"t", "e", "r", "m", "i", "n", "a", "t", "e", "d">>
      [] OTHER ->
            <<"s", "i", "g", "n", "a", "l", " ", "4", "2">>

LowerChars == <<"a", "b", "c", "d", "e", "f", "g", "h", "i", "j", "k", "l", "m",
                "n", "o", "p", "q", "r", "s", "t", "u", "v", "w", "x", "y", "z">>
UpperChars == <<"A", "B", "C", "D", "E", "F", "G", "H", "I", "J", "K", "L", "M",
                "N", "O", "P", "Q", "R", "S", "T", "U", "V", "W", "X", "Y", "Z">>

ToUpperChar(c) ==
    IF \E i \in 1..Len(LowerChars) : LowerChars[i] = c
    THEN UpperChars[CHOOSE i \in 1..Len(LowerChars) : LowerChars[i] = c]
    ELSE c

ToUpper(s) == [i \in 1..Len(s) |-> ToUpperChar(s[i])]

----------------------------------------------------------------------------
(* The events: one record shape per fxevent type LogEvent switches on,     *)
(* with the fields it reads.  "nil" is the nil interface value and "Other" *)
(* an event type the switch has no case for.                               *)

HookEvents(kind) ==
    {[kind |-> kind, FunctionName |-> "hook.onStart", CallerName |-> "bytes.NewBuffer"]}

HookDoneEvents(kind) ==
    {[kind |-> kind, FunctionName |-> "hook.onStart", CallerName |-> "bytes.NewBuffer",
      Runtime |-> d, Err |-> err] : d \in Durations, err \in Errors}

SuppliedEvents ==
    {[kind |-> "Supplied", TypeName |-> "*bytes.Buffer", ModuleName |-> m, Err |-> err] :
        m \in ModuleNames, err \in Errors}

ProvidedEvents ==
    {[kind |-> "Provided", ConstructorName |-> "bytes.NewBuffer()", ModuleName |-> m,
      OutputTypeNames |-> outs, Private |-> p, Err |-> err] :
        m \in ModuleNames, outs \in SeqsUpTo(TypeNames, MaxOutputs),
        p \in BOOLEAN, err \in Errors}

ReplacedEvents ==
    {[kind |-> "Replaced", ModuleName |-> m, OutputTypeNames |-> outs, Err |-> err] :
        m \in ModuleNames, outs \in SeqsUpTo(TypeNames, MaxOutputs), err \in Errors}

DecoratedEvents ==
    {[kind |-> "Decorated", DecoratorName |-> "bytes.NewBuffer()", ModuleName |-> m,
      OutputTypeNames |-> outs, Err |-> err] :
        m \in ModuleNames, outs \in SeqsUpTo(TypeNames, MaxOutputs), err \in Errors}

InvokingEvents ==
    {[kind |-> "Invoking", FunctionName |-> "bytes.NewBuffer()", ModuleName |-> m] :
        m \in ModuleNames}

InvokedEvents ==
    {[kind |-> "Invoked", FunctionName |-> "bytes.NewBuffer()", ModuleName |-> m,
      Trace |-> "main.go:12", Err |-> err] : m \in ModuleNames, err \in Errors}

StoppingEvents == {[kind |-> "Stopping", Signal |-> sig] : sig \in Signals}

ErrOnlyEvents(kind) == {[kind |-> kind, Err |-> err] : err \in Errors}

RollingBackEvents == {[kind |-> "RollingBack", StartErr |-> err] : err \in Errors}

LoggerInitializedEvents ==
    {[kind |-> "LoggerInitialized", ConstructorName |-> "bytes.NewBuffer()", Err |-> err] :
        err \in Errors}

NilEvent == [kind |-> "nil"]

UnrecognizedEvents == {NilEvent, [kind |-> "Other"]}

Events ==
    HookEvents("OnStartExecuting") \cup HookDoneEvents("OnStartExecuted")
    \cup HookEvents("OnStopExecuting") \cup HookDoneEvents("OnStopExecuted")
    \cup SuppliedEvents \cup ProvidedEvents \cup ReplacedEvents \cup DecoratedEvents
    \cup InvokingEvents \cup InvokedEvents \cup StoppingEvents
    \cup ErrOnlyEvents("Stopped") \cup RollingBackEvents \cup ErrOnlyEvents("RolledBack")
    \cup ErrOnlyEvents("Started") \cup LoggerInitializedEvents \cup UnrecognizedEvents

----------------------------------------------------------------------------
(* The adapter.  `l` is the receiver: [Logger, logLevel, errorLevel].       *)

\* l.Logger.V(l.logLevel).Info(msg, keysAndValues...)
logEvent(l, msg, keysAndValues) ==
    [op |-> "Info", sink |-> l.Logger, v |-> l.logLevel, err |-> Nil,
     msg |-> msg, kvs |-> keysAndValues]

\* a faulty variant of logError: the error call is made at the informational level
logErrorAtLogLevel(l, err, msg, keysAndValues) ==
    [op |-> "Error", sink |-> l.Logger, v |-> l.logLevel, err |-> err,
     msg |-> msg, kvs |-> keysAndValues]

\* l.Logger.V(l.errorLevel).Error(err, msg, keysAndValues...)
logError(l, err, msg, keysAndValues) ==
    [op |-> "Error", sink |-> l.Logger, v |-> l.errorLevel, err |-> err,
     msg |-> msg, kvs |-> keysAndValues]

\* case *fxevent.OnStartExecuting
OnStartExecutingCalls(l, e) ==
    <<logEvent(l, "OnStart hook executing",
               <<<<"callee", e.FunctionName>>, <<"caller", e.CallerName>>>>)>>

\* case *fxevent.OnStartExecuted
OnStartExecutedCalls(l, e) ==
    IF e.Err # Nil
    THEN <<logError(l, e.Err, "OnStart hook failed",
                    <<<<"callee", e.FunctionName>>, <<"caller", e.CallerName>>>>)>>
    ELSE <<logEvent(l, "OnStart hook executed",
                    <<<<"callee", e.FunctionName>>, <<"caller", e.CallerName>>,
                      <<"runtime", DurationString(e.Runtime)>>>>)>>

\* case *fxevent.OnStopExecuting
OnStopExecutingCalls(l, e) ==
    <<logEvent(l, "OnStop hook executing",
               <<<<"callee", e.FunctionName>>, <<"caller", e.CallerName>>>>)>>

\* a faulty variant of OnStopExecutedCalls: the failure call carries the runtime too
OnStopExecutedCallsRuntimeOnFailure(l, e) ==
    IF e.Err # Nil
    THEN <<logError(l, e.Err, "OnStop hook failed",
                    <<<<"callee", e.FunctionName>>, <<"caller", e.CallerName>>,
                      <<"runtime", DurationString(e.Runtime)>>>>)>>
    ELSE <<logEvent(l, "OnStop hook executed",
                    <<<<"callee", e.FunctionName>>, <<"caller", e.CallerName>>,
                      <<"runtime", DurationString(e.Runtime)>>>>)>>

\* case *fxevent.OnStopExecuted
OnStopExecutedCalls(l, e) ==
    IF e.Err # Nil
    THEN <<logError(l, e.Err, "OnStop hook failed",
                    <<<<"callee", e.FunctionName>>, <<"caller", e.CallerName>>>>)>>
    ELSE <<logEvent(l, "OnStop hook executed",
                    <<<<"callee", e.FunctionName>>, <<"caller", e.CallerName>>,
                      <<"runtime", DurationString(e.Runtime)>>>>)>>

\* case *fxevent.Supplied
SuppliedCalls(l, e) ==
    IF Len(e.ModuleName) # 0
    THEN IF e.Err # Nil
         THEN <<logError(l, e.Err, "error encountered while applying options",
                         <<<<"type", e.TypeName>>, <<"module", e.ModuleName>>>>)>>
         ELSE <<logEvent(l, "supplied",
                         <<<<"type", e.TypeName>>, <<"module", e.ModuleName>>>>)>>
    ELSE IF e.Err # Nil
         THEN <<logError(l, e.Err, "error encountered while applying options",
                         <<<<"type", e.TypeName>>>>)>>
         ELSE <<logEvent(l, "supplied", <<<<"type", e.TypeName>>>>)>>

\* a faulty variant of ProvidedCalls: `private` is emitted always, with the flag's value
ProvidedCallsPrivateAlways(l, e) ==
    IF Len(e.ModuleName) # 0
    THEN [i \in 1..Len(e.OutputTypeNames) |->
            logEvent(l, "provided",
                     <<<<"constructor", e.ConstructorName>>, <<"module", e.ModuleName>>,
                       <<"type", e.OutputTypeNames[i]>>, <<"private", e.Private>>>>)]
         \o (IF e.Err # Nil
             THEN <<logError(l, e.Err, "error encountered while applying options",
                             <<<<"module", e.ModuleName>>>>)>>
             ELSE <<>>)
    ELSE [i \in 1..Len(e.OutputTypeNames) |->
            logEvent(l, "provided",
                     <<<<"constructor", e.ConstructorName>>,
                       <<"type", e.OutputTypeNames[i]>>, <<"private", e.Private>>>>)]
         \o (IF e.Err # Nil
             THEN <<logError(l, e.Err, "error encountered while applying options", <<>>)>>
             ELSE <<>>)

\* case *fxevent.Provided
ProvidedCalls(l, e) ==
    IF Len(e.ModuleName) # 0
    THEN [i \in 1..Len(e.OutputTypeNames) |->
            IF e.Private
            THEN logEvent(l, "provided",
                          <<<<"constructor", e.ConstructorName>>, <<"module", e.ModuleName>>,
                            <<"type", e.OutputTypeNames[i]>>, <<"private", TRUE>>>>)
            ELSE logEvent(l, "provided",
                          <<<<"constructor", e.ConstructorName>>, <<"module", e.ModuleName>>,
                            <<"type", e.OutputTypeNames[i]>>>>)]
         \o (IF e.Err # Nil
             THEN <<logError(l, e.Err, "error encountered while applying options",
                             <<<<"module", e.ModuleName>>>>)>>
             ELSE <<>>)
    ELSE [i \in 1..Len(e.OutputTypeNames) |->
            IF e.Private
            THEN logEvent(l, "provided",
                          <<<<"constructor", e.ConstructorName>>,
                            <<"type", e.OutputTypeNames[i]>>, <<"private", TRUE>>>>)
            ELSE logEvent(l, "provided",
                          <<<<"constructor", e.ConstructorName>>,
                            <<"type", e.OutputTypeNames[i]>>>>)]
         \o (IF e.Err # Nil
             THEN <<logError(l, e.Err, "error encountered while applying options", <<>>)>>
             ELSE <<>>)

\* a faulty variant of ReplacedCalls: the failure is logged before the per-type calls
ReplacedCallsErrorFirst(l, e) ==
    IF Len(e.ModuleName) # 0
    THEN (IF e.Err # Nil
          THEN <<logError(l, e.Err, "error encountered while replacing",
                          <<<<"module", e.ModuleName>>>>)>>
          ELSE <<>>)
         \o [i \in 1..Len(e.OutputTypeNames) |->
               logEvent(l, "replaced",
                        <<<<"module", e.ModuleName>>, <<"type", e.OutputTypeNames[i]>>>>)]
    ELSE (IF e.Err # Nil
          THEN <<logError(l, e.Err, "error encountered while replacing", <<>>)>>
          ELSE <<>>)
         \o [i \in 1..Len(e.OutputTypeNames) |->
               logEvent(l, "replaced", <<<<"type", e.OutputTypeNames[i]>>>>)]

\* case *fxevent.Replaced
ReplacedCalls(l, e) ==
    IF Len(e.ModuleName) # 0
    THEN [i \in 1..Len(e.OutputTypeNames) |->
            logEvent(l, "replaced",
                     <<<<"module", e.ModuleName>>, <<"type", e.OutputTypeNames[i]>>>>)]
         \o (IF e.Err # Nil
             THEN <<logError(l, e.Err, "error encountered while replacing",
                             <<<<"module", e.ModuleName>>>>)>>
             ELSE <<>>)
    ELSE [i \in 1..Len(e.OutputTypeNames) |->
            logEvent(l, "replaced", <<<<"type", e.OutputTypeNames[i]>>>>)]
         \o (IF e.Err # Nil
             THEN <<logError(l, e.Err, "error encountered while replacing", <<>>)>>
             ELSE <<>>)

RECURSIVE Flatten(_)
\* the concatenation of a sequence of sequences
Flatten(ss) == IF ss = <<>> THEN <<>> ELSE Head(ss) \o Flatten(Tail(ss))

\* a faulty variant of DecoratedCalls: the failure is logged inside the loop, once per type
DecoratedCallsErrorPerType(l, e) ==
    Flatten([i \in 1..Len(e.OutputTypeNames) |->
        <<logEvent(l, "decorated",
                   IF Len(e.ModuleName) # 0
                   THEN <<<<"decorator", e.DecoratorName>>, <<"module", e.ModuleName>>,
                          <<"type", e.OutputTypeNames[i]>>>>
                   ELSE <<<<"decorator", e.DecoratorName>>,
                          <<"type", e.OutputTypeNames[i]>>>>)>>
        \o (IF e.Err # Nil
            THEN <<logError(l, e.Err, "error encountered while applying options",
                            IF Len(e.ModuleName) # 0
                            THEN <<<<"module", e.ModuleName>>>> ELSE <<>>)>>
            ELSE <<>>)])

\* case *fxevent.Decorated
DecoratedCalls(l, e) ==
    IF Len(e.ModuleName) # 0
    THEN [i \in 1..Len(e.OutputTypeNames) |->
            logEvent(l, "decorated",
                     <<<<"decorator", e.DecoratorName>>, <<"module", e.ModuleName>>,
                       <<"type", e.OutputTypeNames[i]>>>>)]
         \o (IF e.Err # Nil
             THEN <<logError(l, e.Err, "error encountered while applying options",
                             <<<<"module", e.ModuleName>>>>)>>
             ELSE <<>>)
    ELSE [i \in 1..Len(e.OutputTypeNames) |->
            logEvent(l, "decorated",
                     <<<<"decorator", e.DecoratorName>>, <<"type", e.OutputTypeNames[i]>>>>)]
         \o (IF e.Err # Nil
             THEN <<logError(l, e.Err, "error encountered while applying options", <<>>)>>
             ELSE <<>>)

\* case *fxevent.Invoking
InvokingCalls(l, e) ==
    IF Len(e.ModuleName) # 0
    THEN <<logEvent(l, "invoking",
                    <<<<"function", e.FunctionName>>, <<"module", e.ModuleName>>>>)>>
    ELSE <<logEvent(l, "invoking", <<<<"function", e.FunctionName>>>>)>>

\* a faulty variant of InvokedCalls: a successful invocation is logged as well
InvokedCallsLogsSuccess(l, e) ==
    IF e.Err # Nil
    THEN <<logError(l, e.Err, "invoke failed",
                    <<<<"stack", e.Trace>>, <<"function", e.FunctionName>>>>
                    \o (IF Len(e.ModuleName) # 0
                        THEN <<<<"module", e.ModuleName>>>> ELSE <<>>))>>
    ELSE <<logEvent(l, "invoked",
                    <<<<"function", e.FunctionName>>>>
                    \o (IF Len(e.ModuleName) # 0
                        THEN <<<<"module", e.ModuleName>>>> ELSE <<>>))>>

\* case *fxevent.Invoked
InvokedCalls(l, e) ==
    IF Len(e.ModuleName) # 0
    THEN IF e.Err # Nil
         THEN <<logError(l, e.Err, "invoke failed",
                         <<<<"stack", e.Trace>>, <<"function", e.FunctionName>>,
                           <<"module", e.ModuleName>>>>)>>
         ELSE <<>>
    ELSE IF e.Err # Nil
         THEN <<logError(l, e.Err, "invoke failed",
                         <<<<"stack", e.Trace>>, <<"function", e.FunctionName>>>>)>>
         ELSE <<>>

\* e.Signal.String() is a method call on an interface value: on a nil
\* os.Signal it panics while the arguments are evaluated, before logEvent
StoppingPanics(e) == e.Signal = Nil

\* case *fxevent.Stopping
StoppingCalls(l, e) ==
    IF StoppingPanics(e)
    THEN <<>>
    ELSE <<logEvent(l, "received signal",
                    <<<<"signal", ToUpper(SignalString(e.Signal))>>>>)>>

\* a faulty variant of StoppedCalls: a clean stop is logged as well
StoppedCallsLogsSuccess(l, e) ==
    IF e.Err # Nil
    THEN <<logError(l, e.Err, "stop failed", <<>>)>>
    ELSE <<logEvent(l, "stopped", <<>>)>>

\* case *fxevent.Stopped
StoppedCalls(l, e) ==
    IF e.Err # Nil THEN <<logError(l, e.Err, "stop failed", <<>>)>> ELSE <<>>

\* a faulty variant of RollingBackCalls: the call is made only when there is a start error
RollingBackCallsOnlyOnError(l, e) ==
    IF e.StartErr # Nil
    THEN <<logError(l, e.StartErr, "start failed, rolling back", <<>>)>>
    ELSE <<>>

\* case *fxevent.RollingBack
RollingBackCalls(l, e) ==
    <<logError(l, e.StartErr, "start failed, rolling back", <<>>)>>

\* case *fxevent.RolledBack
RolledBackCalls(l, e) ==
    IF e.Err # Nil THEN <<logError(l, e.Err, "rollback failed", <<>>)>> ELSE <<>>

\* case *fxevent.Started
StartedCalls(l, e) ==
    IF e.Err # Nil
    THEN <<logError(l, e.Err, "start failed", <<>>)>>
    ELSE <<logEvent(l, "started", <<>>)>>

\* case *fxevent.LoggerInitialized
LoggerInitializedCalls(l, e) ==
    IF e.Err # Nil
    THEN <<logError(l, e.Err, "custom logger initialization failed", <<>>)>>
    ELSE <<logEvent(l, "initialized custom fxevent.Logger",
                    <<<<"function", e.ConstructorName>>>>)>>

\* the type switch of LogEvent; it has no default case
LogEventCalls(l, e) ==
    CASE e.kind = "OnStartExecuting"  -> OnStartExecutingCalls(l, e)
      [] e.kind = "OnStartExecuted"   -> OnStartExecutedCalls(l, e)
      [] e.kind = "OnStopExecuting"   -> OnStopExecutingCalls(l, e)
      [] e.kind = "OnStopExecuted"    -> OnStopExecutedCalls(l, e)
      [] e.kind = "Supplied"          -> SuppliedCalls(l, e)
      [] e.kind = "Provided"          -> ProvidedCalls(l, e)
      [] e.kind = "Replaced"          -> ReplacedCalls(l, e)
      [] e.kind = "Decorated"         -> DecoratedCalls(l, e)
      [] e.kind = "Invoking"          -> InvokingCalls(l, e)
      [] e.kind = "Invoked"           -> InvokedCalls(l, e)
      [] e.kind = "Stopping"          -> StoppingCalls(l, e)
      [] e.kind = "Stopped"           -> StoppedCalls(l, e)
      [] e.kind = "RollingBack"       -> RollingBackCalls(l, e)
      [] e.kind = "RolledBack"        -> RolledBackCalls(l, e)
      [] e.kind = "Started"           -> StartedCalls(l, e)
      [] e.kind = "LoggerInitialized" -> LoggerInitializedCalls(l, e)
      [] OTHER                        -> <<>>

\* how LogEvent ends
LogEventOutcome(e) ==
    IF e.kind = "Stopping" /\ StoppingPanics(e) THEN "panicked" ELSE "returned"

----------------------------------------------------------------------------
(* The state machine. *)

\* WithLogr(l)(): &LogrLogger{Logger: l}, both levels the zero value
Init ==
    /\ Logger \in Sinks
    /\ logLevel = 0
    /\ errorLevel = 0
    /\ op = "WithLogr"
    /\ arg = 0
    /\ event = NilEvent
    /\ calls = <<>>
    /\ outcome = "returned"

UseLogLevel(level) ==
    /\ logLevel' = level
    /\ op' = "UseLogLevel"
    /\ arg' = level
    /\ calls' = <<>>
    /\ outcome' = "returned"
    /\ event' = NilEvent
    /\ UNCHANGED <<Logger, errorLevel>>

UseErrorLevel(level) ==
    /\ errorLevel' = level
    /\ op' = "UseErrorLevel"
    /\ arg' = level
    /\ calls' = <<>>
    /\ outcome' = "returned"
    /\ event' = NilEvent
    /\ UNCHANGED <<Logger, logLevel>>

\* a faulty variant of LogEvent: handling an event leaves the informational level at the
\* error level
LogEventChangesLevel(e) ==
    /\ op' = "LogEvent"
    /\ event' = e
    /\ calls' = LogEventCalls([Logger |-> Logger, logLevel |-> logLevel,
                               errorLevel |-> errorLevel], e)
    /\ outcome' = LogEventOutcome(e)
    /\ logLevel' = errorLevel
    /\ UNCHANGED <<Logger, errorLevel, arg>>

LogEvent(e) ==
    /\ op' = "LogEvent"
    /\ event' = e
    /\ calls' = LogEventCalls([Logger |-> Logger, logLevel |-> logLevel,
                               errorLevel |-> errorLevel], e)
    /\ outcome' = LogEventOutcome(e)
    /\ UNCHANGED <<Logger, logLevel, errorLevel, arg>>

Next ==
    \/ \E level \in Levels : UseLogLevel(level)
    \/ \E level \in Levels : UseErrorLevel(level)
    \/ \E e \in Events : LogEvent(e)

Spec == Init /\ [][Next]_vars

----------------------------------------------------------------------------
(* Reading a sink call. *)

Keys(c) == [i \in 1..Len(c.kvs) |-> c.kvs[i][1]]
HasKey(c, k) == \E i \in 1..Len(c.kvs) : c.kvs[i][1] = k
ValueOf(c, k) == c.kvs[CHOOSE i \in 1..Len(c.kvs) : c.kvs[i][1] = k][2]
Handled(kind) == op = "LogEvent" /\ event.kind = kind
Failed == event.Err # Nil
InfoCall(msg, kvs) ==
    [op |-> "Info", sink |-> Logger, v |-> logLevel, err |-> Nil, msg |-> msg, kvs |-> kvs]
ErrorCall(err, msg, kvs) ==
    [op |-> "Error", sink |-> Logger, v |-> errorLevel, err |-> err, msg |-> msg, kvs |-> kvs]

PerTypeKinds == {"Provided", "Replaced", "Decorated"}
ModuleKinds == {"Supplied", "Provided", "Replaced", "Decorated", "Invoking", "Invoked"}
OnlyOnFailureKinds == {"Invoked", "Stopped", "RolledBack"}
UnrecognizedKinds == {"nil", "Other"}

----------------------------------------------------------------------------
(* C1 as stated: every event of every variant makes exactly one sink call. *)
(* Stated here for the events of a recognized variant that LogEvent        *)
(* returns from, so that what refutes it is the event table itself.        *)
C1_ExactlyOneCall ==
    (op = "LogEvent" /\ event.kind \notin UnrecognizedKinds /\ outcome = "returned")
        => Len(calls) = 1

\* the number of sink calls the event table gives an event
ExpectedCalls(e) ==
    CASE e.kind \in PerTypeKinds ->
            Len(e.OutputTypeNames) + (IF e.Err # Nil THEN 1 ELSE 0)
      [] e.kind \in OnlyOnFailureKinds -> IF e.Err # Nil THEN 1 ELSE 0
      [] e.kind \in UnrecognizedKinds -> 0
      [] e.kind = "Stopping" -> IF e.Signal = Nil THEN 0 ELSE 1
      [] OTHER -> 1

(* C1 amended: LogEvent makes exactly one sink call for every event except *)
(* these: a Provided, Replaced or Decorated event makes one call per       *)
(* output type plus one when it carries a cause; an Invoked, Stopped or    *)
(* RolledBack event without a cause, an unrecognized event and a Stopping  *)
(* event without a signal make none.                                       *)
C1_CallCount == op = "LogEvent" => Len(calls) = ExpectedCalls(event)

C1_Witness ==
    /\ Handled("Provided")
    /\ Len(event.OutputTypeNames) = 2
    /\ Failed
    /\ Len(calls) = 3

(* C2: a Provided, Replaced or Decorated event with N output types makes   *)
(* N informational calls, the i-th for the i-th output type, and then one  *)
(* error call exactly when the event carries a cause; the error call is    *)
(* the last call and names no type.                                        *)
C2_PerTypeThenError ==
    (op = "LogEvent" /\ event.kind \in PerTypeKinds) =>
        LET outs == event.OutputTypeNames
            n == Len(outs)
        IN  /\ Len(calls) = n + (IF Failed THEN 1 ELSE 0)
            /\ \A i \in 1..n :
                /\ calls[i].op = "Info"
                /\ HasKey(calls[i], "type")
                /\ ValueOf(calls[i], "type") = outs[i]
            /\ Failed =>
                /\ calls[n + 1].op = "Error"
                /\ calls[n + 1].err = event.Err
                /\ ~HasKey(calls[n + 1], "type")

C2_Witness ==
    /\ Handled("Replaced")
    /\ event.OutputTypeNames = <<"io.Reader", "*bytes.Buffer">>
    /\ Failed
    /\ Len(calls) = 3
    /\ calls[3].op = "Error"

(* C3: both levels start at 0; UseLogLevel sets the informational level to *)
(* its argument and leaves the error level alone, UseErrorLevel the other  *)
(* way round; and every sink call of a LogEvent is made at the error level *)
(* when it is an error call and at the informational level otherwise.      *)
C3_Levels ==
    [][/\ (op = "WithLogr" => logLevel = 0 /\ errorLevel = 0)
       /\ (op' = "UseLogLevel" => logLevel' = arg' /\ errorLevel' = errorLevel)
       /\ (op' = "UseErrorLevel" => errorLevel' = arg' /\ logLevel' = logLevel)
       /\ (op' = "LogEvent" =>
            \A i \in 1..Len(calls') :
                calls'[i].v = IF calls'[i].op = "Error" THEN errorLevel ELSE logLevel)]_vars

C3_Witness ==
    /\ op = "LogEvent"
    /\ logLevel = 1
    /\ errorLevel = 0 - 1
    /\ \E i \in 1..Len(calls) : calls[i].op = "Info" /\ calls[i].v = 1
    /\ \E i \in 1..Len(calls) : calls[i].op = "Error" /\ calls[i].v = 0 - 1

(* C4: for Supplied, Provided, Replaced, Decorated, Invoking and Invoked   *)
(* events every call has a `module` field exactly when the module name is  *)
(* non-empty, and then with that name; an informational call of a Provided *)
(* event has a `private` field exactly when the event is private, and then *)
(* with the value true.                                                    *)
C4_OptionalFields ==
    /\ (op = "LogEvent" /\ event.kind \in ModuleKinds) =>
        \A i \in 1..Len(calls) :
            /\ HasKey(calls[i], "module") <=> event.ModuleName # ""
            /\ HasKey(calls[i], "module") => ValueOf(calls[i], "module") = event.ModuleName
    /\ Handled("Provided") =>
        \A i \in 1..Len(calls) :
            calls[i].op = "Info" =>
                /\ HasKey(calls[i], "private") <=> event.Private
                /\ HasKey(calls[i], "private") => ValueOf(calls[i], "private") = TRUE

C4_Witness ==
    /\ Handled("Provided")
    /\ event.Private
    /\ event.ModuleName = "myModule"
    /\ Failed
    /\ Len(calls) = 3
    /\ Keys(calls[1]) = <<"constructor", "module", "type", "private">>
    /\ Keys(calls[3]) = <<"module">>

(* C5: an OnStartExecuted/OnStopExecuted event makes exactly one call:     *)
(* without a cause an informational "OnStart/OnStop hook executed" with    *)
(* callee, caller, runtime in that order (a 3ms runtime reads "3ms"); with *)
(* a cause an error "OnStart/OnStop hook failed" with the cause and only   *)
(* callee, caller.                                                         *)
C5_HookExecuted ==
    \A hook \in {"OnStart", "OnStop"} :
        Handled(hook \o "Executed") =>
            /\ Len(calls) = 1
            /\ IF Failed
               THEN calls[1] = ErrorCall(event.Err, hook \o " hook failed",
                                         <<<<"callee", event.FunctionName>>,
                                           <<"caller", event.CallerName>>>>)
               ELSE /\ calls[1].op = "Info"
                    /\ calls[1].v = logLevel
                    /\ calls[1].msg = hook \o " hook executed"
                    /\ Keys(calls[1]) = <<"callee", "caller", "runtime">>
                    /\ ValueOf(calls[1], "callee") = event.FunctionName
                    /\ ValueOf(calls[1], "caller") = event.CallerName
                    /\ event.Runtime = 3 * Millisecond =>
                            ValueOf(calls[1], "runtime") = "3ms"

C5_Witness ==
    /\ Handled("OnStopExecuted")
    /\ Failed
    /\ Len(calls) = 1
    /\ calls[1].msg = "OnStop hook failed"
    /\ Keys(calls[1]) = <<"callee", "caller">>

(* C6 as stated: a Stopped event without a cause makes an informational    *)
(* call "started"; with a cause an error call "stop failed" with no field. *)
C6_StoppedLogsStarted ==
    Handled("Stopped") =>
        IF Failed
        THEN calls = <<ErrorCall(event.Err, "stop failed", <<>>)>>
        ELSE calls = <<InfoCall("started", <<>>)>>

(* C6 amended: a Stopped event without a cause makes no sink call at all;  *)
(* with a cause it makes one error call "stop failed" with no fields.      *)
C6_Stopped ==
    Handled("Stopped") =>
        IF Failed
        THEN calls = <<ErrorCall(event.Err, "stop failed", <<>>)>>
        ELSE calls = <<>>

C6_Witness == Handled("Stopped") /\ ~Failed /\ calls = <<>> /\ outcome = "returned"

(* C7: LogEvent never fails the caller: it returns normally for every      *)
(* event, and makes no sink call for an event it does not recognize.       *)
C7_NeverFails ==
    op = "LogEvent" =>
        /\ outcome = "returned"
        /\ event.kind \in UnrecognizedKinds => calls = <<>>

(* C8: a RollingBack event makes exactly one call, an error call at the    *)
(* error level, "start failed, rolling back", with no fields and the start *)
(* error as it is, absent or not.                                          *)
C8_RollingBack ==
    Handled("RollingBack") =>
        calls = <<ErrorCall(event.StartErr, "start failed, rolling back", <<>>)>>

C8_Witness ==
    /\ Handled("RollingBack")
    /\ event.StartErr = Nil
    /\ Len(calls) = 1
    /\ calls[1].op = "Error"
    /\ calls[1].err = Nil

(* C9: an Invoked or RolledBack event without a cause makes no call; with  *)
(* a cause it makes one error call: "invoke failed" with stack, function   *)
(* and, only for a non-empty module name, module; "rollback failed" with   *)
(* no fields.                                                              *)
C9_OnlyOnFailure ==
    /\ Handled("Invoked") =>
        IF Failed
        THEN calls = <<ErrorCall(event.Err, "invoke failed",
                        <<<<"stack", event.Trace>>, <<"function", event.FunctionName>>>>
                        \o (IF event.ModuleName # ""
                            THEN <<<<"module", event.ModuleName>>>> ELSE <<>>))>>
        ELSE calls = <<>>
    /\ Handled("RolledBack") =>
        IF Failed
        THEN calls = <<ErrorCall(event.Err, "rollback failed", <<>>)>>
        ELSE calls = <<>>

C9_Witness ==
    /\ Handled("Invoked")
    /\ Failed
    /\ event.ModuleName = "myModule"
    /\ Len(calls) = 1
    /\ Keys(calls[1]) = <<"stack", "function", "module">>

(* C10: LogEvent leaves the sink reference and both levels as they were,   *)
(* and an event handled twice in a row makes the same calls and ends the   *)
(* same way both times.                                                    *)
C10_Frame ==
    [][op' = "LogEvent" =>
        /\ Logger' = Logger
        /\ logLevel' = logLevel
        /\ errorLevel' = errorLevel
        /\ (op = "LogEvent" /\ event' = event) =>
                (calls' = calls /\ outcome' = outcome)]_vars

C10_Witness ==
    /\ Handled("Decorated")
    /\ logLevel = 1
    /\ errorLevel = 0 - 1
    /\ Failed
    /\ Len(calls) = 3

====
